---- MODULE Spec2Model ----
(***************************************************************************)
(* Model of the realms elevation generator: the fractal noise field        *)
(* builder (noisemap.rs), the World aggregate (world.rs), inverse_lerp     *)
(* (util.rs) and the key handler of the viewer (viewer.rs).                *)
(*                                                                         *)
(* f64 values are fixed-point integers: the integer n stands for n / Unit. *)
(* +inf, -inf and NaN are three integers outside the finite range, with    *)
(* the IEEE rules for them written out in FLt, FSub, FMul, FDiv.           *)
(***************************************************************************)
EXTENDS Integers, Sequences, FiniteSets, TLC

(* ------------------------------ bounds -------------------------------- *)
MaxSeed == 1
MaxWidth == 2
MaxHeight == 2
MaxOctaves == 2

Seeds == 0..MaxSeed
Calls == {1, 2}

(* ------------------------------- f64 ---------------------------------- *)
Unit == 100
PosInf == 1000000000
NegInf == -1000000000
NaN == 2000000000

IsFinite(a) == a # PosInf /\ a # NegInf /\ a # NaN

Abs(n) == IF n < 0 THEN -n ELSE n

Sign(n) == IF n < 0 THEN -1 ELSE IF n > 0 THEN 1 ELSE 0

\* integer quotient rounded toward zero, for any non-zero divisor
IDiv(a, b) == Sign(a) * Sign(b) * (Abs(a) \div Abs(b))

\* a < b on f64: false as soon as one side is NaN
FLt(a, b) == a # NaN /\ b # NaN /\ a < b

FNeg(a) ==
    IF a = NaN THEN NaN
    ELSE IF a = PosInf THEN NegInf
    ELSE IF a = NegInf THEN PosInf
    ELSE -a

FAdd(a, b) ==
    IF a = NaN \/ b = NaN THEN NaN
    ELSE IF a = PosInf THEN (IF b = NegInf THEN NaN ELSE PosInf)
    ELSE IF a = NegInf THEN (IF b = PosInf THEN NaN ELSE NegInf)
    ELSE IF ~IsFinite(b) THEN b
    ELSE a + b

FSub(a, b) == FAdd(a, FNeg(b))

FMul(a, b) ==
    IF a = NaN \/ b = NaN THEN NaN
    ELSE IF ~IsFinite(a) \/ ~IsFinite(b)
         THEN (IF a = 0 \/ b = 0 THEN NaN
               ELSE IF Sign(a) * Sign(b) > 0 THEN PosInf ELSE NegInf)
    ELSE IDiv(a * b, Unit)

FDiv(a, b) ==
    IF a = NaN \/ b = NaN THEN NaN
    ELSE IF ~IsFinite(a)
         THEN (IF ~IsFinite(b) THEN NaN
               ELSE IF Sign(a) * (IF b < 0 THEN -1 ELSE 1) > 0 THEN PosInf ELSE NegInf)
    ELSE IF ~IsFinite(b) THEN 0
    ELSE IF b = 0
         THEN (IF a = 0 THEN NaN ELSE IF a > 0 THEN PosInf ELSE NegInf)
    ELSE IDiv(a * Unit, b)

FAbs(a) == IF a = NaN THEN NaN ELSE IF a = NegInf THEN PosInf ELSE Abs(a)

\* f64::max: the other operand when one is NaN
FMax(a, b) == IF a = NaN THEN b ELSE IF b = NaN THEN a ELSE IF a < b THEN b ELSE a

\* usize as f64
AsF64(n) == n * Unit

\* value.powf(a) for the whole exponents the model draws a from
RECURSIVE PowN(_, _)
PowN(v, n) == IF n = 0 THEN Unit ELSE FMul(v, PowN(v, n - 1))

Powf(v, a) == PowN(v, a \div Unit)

(* ------------------------------ util.rs ------------------------------- *)
inverse_lerp(min, max, value) == FDiv(FSub(value, min), FSub(max, min))

(* --------------------- rand::StdRng, noise::Perlin -------------------- *)
\* The generator has RngMod states; next_u32 returns one of OffsetMod values.
RngMod == 16
OffsetMod == 8

\* StdRng::seed_from_u64
SeedFromU64(seed) == (seed * 5 + 3) % RngMod

\* the state after one next_u32, and the value that call returns
NextState(s) == (s * 5 + 1) % RngMod

NextU32(s) == NextState(s) % OffsetMod

\* Perlin::new().get([sx, sy]): a fixed function of the point, in [-1, 1]
Perlin(sx, sy) == ((sx * 31 + sy * 17) % (2 * Unit + 1)) - Unit

(* ---------------------------- parameters ------------------------------ *)
Scales == {20}
Persistences == {35, 40}
Lacunarities == {400, 405}
SeaLevels == {0, 10}

NoiseParameters ==
    [scale : Scales, octaves : 0..MaxOctaves,
     persistence : Persistences, lacunarity : Lacunarities]

\* Option<FalloffParameters>: some = FALSE is None
NoFalloff == [some |-> FALSE, a |-> 0, b |-> 0, multiplier |-> 0]

Falloffs == {NoFalloff, [some |-> TRUE, a |-> 200, b |-> 600, multiplier |-> 70]}

WorldParameters ==
    [width : 0..MaxWidth, height : 0..MaxHeight,
     elevation_parameters : NoiseParameters, falloff : Falloffs,
     sea_level : SeaLevels]

(* ---------------------------- noisemap.rs ----------------------------- *)
\* One call of NoiseMap::new / NoiseMap::new_with_falloff, as a record:
\*   pc              where the call stands
\*   random          the state of the call's StdRng
\*   pending         the x-offset of the pair being drawn
\*   octave_offsets  the pairs drawn so far
\*   map, min, max   the field under construction
\*   fidx            the cells the falloff pass has visited
\*   rng_calls       how many times next_u32 was called (history)
\*   used            the pairs the last sampled cell read, in order (history)
IdleCall(seed, width, height, parameters, fp) ==
    [pc |-> "idle", seed |-> seed, width |-> width, height |-> height,
     parameters |-> parameters, falloff |-> fp,
     random |-> 0, pending |-> 0, octave_offsets |-> <<>>,
     map |-> <<>>, min |-> 0, max |-> 0, fidx |-> 0,
     rng_calls |-> 0, used |-> <<>>]

\* lines 48-51: the generator is seeded from the seed, the map is empty
CallStep(st) ==
    [st EXCEPT !.pc = "offsets", !.random = SeedFromU64(st.seed),
               !.map = <<>>, !.octave_offsets = <<>>]

\* line 54, first component of the tuple
DrawXStep(st) ==
    [st EXCEPT !.pc = "offsets_y", !.pending = NextU32(st.random),
               !.random = NextState(st.random), !.rng_calls = @ + 1]

\* DrawYStep with the two components of the pair exchanged
DrawYStepSwapped(st) ==
    [st EXCEPT !.pc = "offsets",
               !.octave_offsets = Append(@, <<NextU32(st.random), st.pending>>),
               !.random = NextState(st.random), !.rng_calls = @ + 1]

\* line 54, second component; the pair is collected
DrawYStep(st) ==
    [st EXCEPT !.pc = "offsets",
               !.octave_offsets = Append(@, <<st.pending, NextU32(st.random)>>),
               !.random = NextState(st.random), !.rng_calls = @ + 1]

\* lines 57-58
BeginSweepStep(st) ==
    [st EXCEPT !.pc = "sweep", !.min = PosInf, !.max = NegInf]

\* the pair the i-th iteration of the loop at line 66 reads
OffsetAt(offsets, i) == offsets[i]

\* lines 66-76, from iteration i on
RECURSIVE OctaveLoop(_, _, _, _, _, _, _, _, _, _, _)
OctaveLoop(offsets, i, x, y, width, height, parameters, amplitude, frequency, value, used) ==
    IF i > Len(offsets) THEN [value |-> value, used |-> used]
    ELSE LET off == OffsetAt(offsets, i)
             sample_x ==
                 FDiv(FMul(frequency,
                           FAdd(FSub(AsF64(x), FDiv(AsF64(width), 2 * Unit)), AsF64(off[1]))),
                      FMul(parameters.scale, AsF64(width)))
             sample_y ==
                 FDiv(FMul(frequency,
                           FAdd(FSub(AsF64(y), FDiv(AsF64(height), 2 * Unit)), AsF64(off[2]))),
                      FMul(parameters.scale, AsF64(height)))
             sample == Perlin(sample_x, sample_y)
         IN OctaveLoop(offsets, i + 1, x, y, width, height, parameters,
                       FMul(amplitude, parameters.persistence),
                       FMul(frequency, parameters.lacunarity),
                       FAdd(value, FMul(amplitude, sample)),
                       Append(used, off))

\* UpdateMin, UpdateMax with the comparison the wrong way round
UpdateMinWrong(min, value) == IF FLt(min, value) THEN value ELSE min

UpdateMaxWrong(max, value) == IF FLt(value, max) THEN value ELSE max

\* lines 78-83
UpdateMin(min, value) == IF FLt(value, min) THEN value ELSE min

UpdateMax(max, value) == IF FLt(max, value) THEN value ELSE max

\* lines 61-85 for the next cell in row-major order
SampleCellStep(st) ==
    LET k == Len(st.map)
        x == k % st.width
        y == k \div st.width
        r == OctaveLoop(st.octave_offsets, 1, x, y, st.width, st.height,
                        st.parameters, Unit, Unit, 0, <<>>)
    IN [st EXCEPT !.map = Append(@, r.value),
                  !.min = UpdateMin(@, r.value),
                  !.max = UpdateMax(@, r.value),
                  !.used = r.used]

\* lines 89-95; new_with_falloff goes on at line 106
ReturnMapStep(st) ==
    [st EXCEPT !.pc = IF st.falloff.some THEN "falloff" ELSE "done"]

\* lines 121-123
falloff(value, a, b) ==
    FDiv(Powf(value, a), FAdd(Powf(value, a), Powf(FSub(b, FMul(b, value)), a)))

\* lines 108-113 for cell (x, y)
FalloffValue(x, y, width, height, fp) ==
    LET i == FAbs(FSub(FMul(FDiv(AsF64(x), AsF64(width)), 2 * Unit), Unit))
        j == FAbs(FSub(FMul(FDiv(AsF64(y), AsF64(height)), 2 * Unit), Unit))
    IN falloff(FMax(i, j), fp.a, fp.b)

\* line 114: what the pass subtracts from cell (x, y)
FalloffAmount(st, x, y) ==
    FMul(FMul(FSub(st.max, st.min), st.falloff.multiplier),
         FalloffValue(x, y, st.width, st.height, st.falloff))

\* FalloffCellStep that also lowers min to the cell's new value
FalloffCellStepRecompute(st) ==
    LET x == st.fidx % st.width
        y == st.fidx \div st.width
        k == y * st.width + x + 1
        v == FSub(st.map[k], FalloffAmount(st, x, y))
    IN [st EXCEPT !.map[k] = v, !.min = IF FLt(v, @) THEN v ELSE @, !.fidx = @ + 1]

\* lines 107-115 for the next cell in row-major order
FalloffCellStep(st) ==
    LET x == st.fidx % st.width
        y == st.fidx \div st.width
        k == y * st.width + x + 1
    IN [st EXCEPT !.map[k] = FSub(@, FalloffAmount(st, x, y)),
                  !.fidx = @ + 1]

\* line 118
ReturnFalloffStep(st) == [st EXCEPT !.pc = "done"]

Cells(st) == st.width * st.height

\* the step the call takes next
Step(st) ==
    CASE st.pc = "idle" -> CallStep(st)
      [] st.pc = "offsets" /\ Len(st.octave_offsets) < st.parameters.octaves -> DrawXStep(st)
      [] st.pc = "offsets" /\ Len(st.octave_offsets) >= st.parameters.octaves -> BeginSweepStep(st)
      [] st.pc = "offsets_y" -> DrawYStep(st)
      [] st.pc = "sweep" /\ Len(st.map) < Cells(st) -> SampleCellStep(st)
      [] st.pc = "sweep" /\ Len(st.map) >= Cells(st) -> ReturnMapStep(st)
      [] st.pc = "falloff" /\ st.fidx < Cells(st) -> FalloffCellStep(st)
      [] st.pc = "falloff" /\ st.fidx >= Cells(st) -> ReturnFalloffStep(st)
      [] OTHER -> st

RECURSIVE Run(_)
Run(st) == IF st.pc = "done" THEN st ELSE Run(Step(st))

\* the NoiseMap a finished call returns
NoiseMapOf(st) ==
    [map |-> st.map, min |-> st.min, max |-> st.max,
     width |-> st.width, height |-> st.height]

\* NoiseMap::new
NoiseMapNew(seed, width, height, parameters) ==
    NoiseMapOf(Run(IdleCall(seed, width, height, parameters, NoFalloff)))

\* NoiseMap::new_with_falloff
NoiseMapNewWithFalloff(seed, width, height, parameters, fp) ==
    NoiseMapOf(Run(IdleCall(seed, width, height, parameters, fp)))

\* NoiseMap::normalize, NoiseMap::get, NoiseMap::get_normalized
normalize(m, value) == inverse_lerp(m.min, m.max, value)

get(m, x, y) == m.map[y * m.width + x + 1]

get_normalized(m, x, y) == normalize(m, m.map[y * m.width + x + 1])

(* ------------------------------ world.rs ------------------------------ *)
generate_elevation(seed, parameters) ==
    IF parameters.falloff.some
    THEN NoiseMapNewWithFalloff(seed, parameters.width, parameters.height,
                                parameters.elevation_parameters, parameters.falloff)
    ELSE NoiseMapNew(seed, parameters.width, parameters.height,
                     parameters.elevation_parameters)

\* World::new
WorldNew(seed, parameters) ==
    [seed |-> seed, parameters |-> parameters,
     elevation |-> generate_elevation(seed, parameters)]

\* World::generate that stores the seed and keeps the old map
WorldGenerateStale(w, seed) == [w EXCEPT !.seed = seed]

\* World::generate
WorldGenerate(w, seed) ==
    [w EXCEPT !.seed = seed, !.elevation = generate_elevation(seed, w.parameters)]

(* ------------------------------ viewer.rs ----------------------------- *)
\* rows.len(): the four rows WorldViewer::new builds
RowsLen == 4

\* the edit closures of the rows (lines 74-114): row 0 sea level, 1 octaves,
\* 2 persistence, 3 lacunarity; dir is 1 for Increase, -1 for Decrease
EditRow(parameters, row, dir) ==
    CASE row = 0 -> [parameters EXCEPT !.sea_level = FAdd(@, dir * 10)]
      [] row = 1 -> [parameters EXCEPT !.elevation_parameters.octaves = @ + dir]
      [] row = 2 -> [parameters EXCEPT !.elevation_parameters.persistence = FAdd(@, dir * 5)]
      [] row = 3 -> [parameters EXCEPT !.elevation_parameters.lacunarity = FAdd(@, dir * 5)]

\* octaves is a usize: octaves -= 1 at 0 overflows
EditOverflows(parameters, row, dir) ==
    row = 1 /\ dir = -1 /\ parameters.elevation_parameters.octaves = 0

(* ------------------------------- state -------------------------------- *)
VARIABLES
    build,        \* the calls of NoiseMap::new / new_with_falloff, by call number
    world,        \* WorldViewer.world
    current_row,  \* WorldViewer.current_row
    panicked,     \* the process has panicked
    last_seed     \* the seed last passed to World::new / World::generate (history)

vars == <<build, world, current_row, panicked, last_seed>>

viewerVars == <<world, current_row, panicked, last_seed>>

(* ------------------- the calls of the field builder ------------------- *)
\* Both calls are given the same arguments; the second starts when the
\* first has returned.
InitBuild ==
    \E seed \in Seeds, width \in 0..MaxWidth, height \in 0..MaxHeight,
       parameters \in NoiseParameters, fp \in Falloffs :
        build = [c \in Calls |-> IdleCall(seed, width, height, parameters, fp)]

\* Call with one generator shared by the calls: a later call goes on from
\* the state the call before it left
CallSharedRng(c) ==
    /\ build[c].pc = "idle"
    /\ c > 1 => build[c - 1].pc = "done"
    /\ build' = [build EXCEPT ![c] =
                     [CallStep(build[c]) EXCEPT !.random =
                         IF c > 1 THEN build[c - 1].random ELSE SeedFromU64(build[c].seed)]]
    /\ UNCHANGED viewerVars

Call(c) ==
    /\ build[c].pc = "idle"
    /\ c > 1 => build[c - 1].pc = "done"
    /\ build' = [build EXCEPT ![c] = CallStep(@)]
    /\ UNCHANGED viewerVars

DrawOffsetX(c) ==
    /\ build[c].pc = "offsets"
    /\ Len(build[c].octave_offsets) < build[c].parameters.octaves
    /\ build' = [build EXCEPT ![c] = DrawXStep(@)]
    /\ UNCHANGED viewerVars

DrawOffsetY(c) ==
    /\ build[c].pc = "offsets_y"
    /\ build' = [build EXCEPT ![c] = DrawYStep(@)]
    /\ UNCHANGED viewerVars

BeginSweep(c) ==
    /\ build[c].pc = "offsets"
    /\ Len(build[c].octave_offsets) >= build[c].parameters.octaves
    /\ build' = [build EXCEPT ![c] = BeginSweepStep(@)]
    /\ UNCHANGED viewerVars

SampleCell(c) ==
    /\ build[c].pc = "sweep"
    /\ Len(build[c].map) < Cells(build[c])
    /\ build' = [build EXCEPT ![c] = SampleCellStep(@)]
    /\ UNCHANGED viewerVars

ReturnMap(c) ==
    /\ build[c].pc = "sweep"
    /\ Len(build[c].map) >= Cells(build[c])
    /\ build' = [build EXCEPT ![c] = ReturnMapStep(@)]
    /\ UNCHANGED viewerVars

FalloffCell(c) ==
    /\ build[c].pc = "falloff"
    /\ build[c].fidx < Cells(build[c])
    /\ build' = [build EXCEPT ![c] = FalloffCellStep(@)]
    /\ UNCHANGED viewerVars

ReturnFalloff(c) ==
    /\ build[c].pc = "falloff"
    /\ build[c].fidx >= Cells(build[c])
    /\ build' = [build EXCEPT ![c] = ReturnFalloffStep(@)]
    /\ UNCHANGED viewerVars

(* ----------------------- the viewer's key handler --------------------- *)
\* main.rs builds the first world with sea level 0.0, persistence 0.35 and
\* lacunarity 4.0; the key handler moves them from there.
InitViewer ==
    /\ \E seed \in Seeds, parameters \in WorldParameters :
        /\ parameters.sea_level = 0
        /\ parameters.elevation_parameters.persistence = 35
        /\ parameters.elevation_parameters.lacunarity = 400
        /\ world = WorldNew(seed, parameters)
        /\ last_seed = seed
    /\ current_row = 0
    /\ panicked = FALSE

\* lines 270-273: Return, not a repeat
KeyReturn ==
    /\ ~panicked
    /\ \E seed \in Seeds :
        /\ world' = WorldNew(seed, world.parameters)
        /\ last_seed' = seed
    /\ UNCHANGED <<build, current_row, panicked>>

\* lines 275-281
KeyUp ==
    /\ ~panicked
    /\ current_row' = IF current_row = 0 THEN RowsLen - 1 ELSE current_row - 1
    /\ UNCHANGED <<build, world, panicked, last_seed>>

\* lines 283-289
KeyDown ==
    /\ ~panicked
    /\ current_row' = IF current_row >= RowsLen THEN 0 ELSE current_row + 1
    /\ UNCHANGED <<build, world, panicked, last_seed>>

\* lines 291-304: the row is indexed, its closure edits the parameters, the
\* world is regenerated.  The call at line 302 names no seed while
\* World::generate takes one: any seed may be the one passed.  Indexing rows
\* out of range and octaves -= 1 at 0 panic.  An edit that would leave the
\* modelled parameter sets is not taken.
KeyEdit(dir) ==
    /\ ~panicked
    /\ IF current_row >= RowsLen \/ EditOverflows(world.parameters, current_row, dir)
       THEN /\ panicked' = TRUE
            /\ UNCHANGED <<world, last_seed>>
       ELSE /\ EditRow(world.parameters, current_row, dir) \in WorldParameters
            /\ \E seed \in Seeds :
                /\ world' = WorldGenerate(
                       [world EXCEPT !.parameters = EditRow(@, current_row, dir)], seed)
                /\ last_seed' = seed
            /\ UNCHANGED panicked
    /\ UNCHANGED <<build, current_row>>

KeyRight == KeyEdit(1)

KeyLeft == KeyEdit(-1)

(* --------------------------- specifications --------------------------- *)
Init ==
    /\ InitViewer
    /\ build = [c \in Calls |->
                   IdleCall(0, 0, 0,
                            [scale |-> 20, octaves |-> 0, persistence |-> 35,
                             lacunarity |-> 400],
                            NoFalloff)]

Next == KeyReturn \/ KeyUp \/ KeyDown \/ KeyRight \/ KeyLeft

Spec == Init /\ [][Next]_vars

InitCalls ==
    /\ InitBuild
    /\ world = [seed |-> 0,
                parameters |-> [width |-> 0, height |-> 0,
                                elevation_parameters |->
                                    [scale |-> 20, octaves |-> 0, persistence |-> 35,
                                     lacunarity |-> 400],
                                falloff |-> NoFalloff, sea_level |-> 0],
                elevation |-> [map |-> <<>>, min |-> PosInf, max |-> NegInf,
                               width |-> 0, height |-> 0]]
    /\ current_row = 0
    /\ panicked = FALSE
    /\ last_seed = 0

NextCalls ==
    \E c \in Calls :
        \/ Call(c)
        \/ DrawOffsetX(c)
        \/ DrawOffsetY(c)
        \/ BeginSweep(c)
        \/ SampleCell(c)
        \/ ReturnMap(c)
        \/ FalloffCell(c)
        \/ ReturnFalloff(c)

SpecCalls == InitCalls /\ [][NextCalls]_vars

(* ------------------------------- claims ------------------------------- *)
FLe(a, b) == a # NaN /\ b # NaN /\ a <= b

\* NoiseMap::new has just returned its raw map: the call is over (no falloff),
\* or the falloff pass has not touched a cell yet
RawReturned(st) ==
    \/ st.pc = "done" /\ ~st.falloff.some
    \/ st.pc = "falloff" /\ st.fidx = 0

\* the in-range cells of a map, as (x, y)
CellsOf(m) == (0..(m.width - 1)) \X (0..(m.height - 1))

\* the generator's state after n calls of next_u32, and the n-th value drawn
RECURSIVE NthState(_, _)
NthState(seed, n) == IF n = 0 THEN SeedFromU64(seed) ELSE NextState(NthState(seed, n - 1))

NthU32(seed, n) == NextU32(NthState(seed, n - 1))

C2_MinMaxBoundAndAttained ==
    \A c \in Calls :
        LET st == build[c] IN
        RawReturned(st) =>
            /\ \A k \in 1..Len(st.map) : FLe(st.min, st.map[k]) /\ FLe(st.map[k], st.max)
            /\ \E k \in 1..Len(st.map) : st.map[k] = st.min
            /\ \E k \in 1..Len(st.map) : st.map[k] = st.max

C4_FalloffKeepsMinMax ==
    \A c \in Calls :
        LET st == build[c]
            raw == NoiseMapNew(st.seed, st.width, st.height, st.parameters)
        IN (st.pc \in {"falloff", "done"} /\ st.falloff.some) =>
            /\ st.min = raw.min
            /\ st.max = raw.max
            /\ \A k \in 1..st.fidx :
                   st.map[k] =
                       FSub(raw.map[k],
                            FMul(FMul(FSub(raw.max, raw.min), st.falloff.multiplier),
                                 FalloffValue((k - 1) % st.width, (k - 1) \div st.width,
                                              st.width, st.height, st.falloff)))

C4_Witness ==
    /\ build[1].pc = "done"
    /\ build[1].falloff.some
    /\ build[1].fidx >= 4
    /\ \E k \in 1..Len(build[1].map) : build[1].map[k] < build[1].min

\* C5: after any sequence of key events the world's seed is the seed last
\* passed and its elevation is the one World::new builds from that seed and
\* the current parameters.
C5_RegenerationReplaces ==
    /\ world.seed = last_seed
    /\ world.elevation = WorldNew(last_seed, world.parameters).elevation

C5_Witness ==
    /\ world.parameters.elevation_parameters.persistence = 40
    /\ world.parameters.elevation_parameters.lacunarity = 405
    /\ world.parameters.elevation_parameters.octaves >= 1
    /\ world.seed = 1
    /\ Len(world.elevation.map) >= 2
    /\ world.elevation.max # world.elevation.min

\* C6: with octaves = 0 and width, height >= 1 the raw map has width * height
\* cells, all 0.0, and min = max = 0.0.
C6_ZeroOctavesAllZero ==
    \A c \in Calls :
        LET st == build[c] IN
        (RawReturned(st) /\ st.parameters.octaves = 0 /\ st.width >= 1 /\ st.height >= 1) =>
            /\ Len(st.map) = st.width * st.height
            /\ \A k \in 1..Len(st.map) : st.map[k] = 0
            /\ st.min = 0
            /\ st.max = 0

C6_Witness ==
    /\ RawReturned(build[1])
    /\ build[1].parameters.octaves = 0
    /\ build[1].width >= 2
    /\ build[1].height >= 2

\* C7: when max = min, normalize and get_normalized return neither NaN nor an
\* infinity.
C7_DegenerateRangeGuarded ==
    world.elevation.max = world.elevation.min =>
        /\ \A p \in CellsOf(world.elevation) :
               IsFinite(get_normalized(world.elevation, p[1], p[2]))
        /\ IsFinite(normalize(world.elevation, world.elevation.min))
        /\ IsFinite(normalize(world.elevation, FAdd(world.elevation.min, Unit)))

\* C8: no World holds a degenerate field: World::new with width = 0 or
\* height = 0 reports an error instead of returning an empty map or one with
\* min > max.
C8_ZeroSizeRejected ==
    /\ Len(world.elevation.map) > 0
    /\ ~FLt(world.elevation.max, world.elevation.min)

\* C9: the generator is called twice per octave and never more; the i-th pair
\* is (the (2i-1)-th value drawn, the 2i-th value drawn); every pair is drawn
\* before the sweep starts, none during it; and each sampled cell reads the
\* pairs in octave order.
C9_OffsetsDrawnFirstInOrder ==
    \A c \in Calls :
        LET st == build[c] IN
        /\ st.rng_calls =
               2 * Len(st.octave_offsets) + (IF st.pc = "offsets_y" THEN 1 ELSE 0)
        /\ Len(st.octave_offsets) <= st.parameters.octaves
        /\ \A i \in 1..Len(st.octave_offsets) :
               st.octave_offsets[i] = <<NthU32(st.seed, 2 * i - 1), NthU32(st.seed, 2 * i)>>
        /\ st.pc = "offsets_y" => st.pending = NthU32(st.seed, st.rng_calls)
        /\ st.pc \in {"sweep", "falloff", "done"} =>
               st.rng_calls = 2 * st.parameters.octaves
        /\ Len(st.map) > 0 =>
               /\ st.rng_calls = 2 * st.parameters.octaves
               /\ st.used = st.octave_offsets

C9_Witness ==
    /\ build[1].pc = "done"
    /\ build[1].parameters.octaves = 2
    /\ build[1].rng_calls = 4
    /\ Len(build[1].map) >= 4
    /\ build[1].octave_offsets[1] # build[1].octave_offsets[2]
    /\ build[1].octave_offsets[1][1] # build[1].octave_offsets[1][2]

\* C10: current_row is always an index of rows.
C10_RowInRange == current_row \in 0..(RowsLen - 1)

====
